---- MODULE Spec2Model ----
\* reposcan: one invocation of the command-line program (src/src/main.rs).
\* Strings are sequences of one-character strings, so that String::starts_with,
\* PathBuf::to_str and the BTreeSet<String> ordering are computed, not assumed.
EXTENDS Integers, Sequences, FiniteSets, TLC

\* ---------------------------------------------------------------- bounds
\* Depth of the directory tree below the working directory.
MaxDepth == 2
\* Largest number of directories that directly contain a .git directory.
MaxGit == 2
\* Largest number of lines of the registry file.
MaxKnown == 3

\* ---------------------------------------------------------------- strings
GitName == <<".", "g", "i", "t">>
IgnoreName == <<".", "r", "e", "p", "o", "s", "c", "a", "n", "i", "g", "n", "o", "r", "e">>
NameA == <<"a">>
NameB == <<"b">>
NameP == <<"p">>
NameP2 == <<"p", "2">>
NameQ == <<"q">>
NameR == <<"r">>
ChildNames == {NameA, NameB}

\* The byte value of a character (u8 order is the order of String's Ord).
CharCode(c) ==
    CASE c = "." -> 46
      [] c = "/" -> 47
      [] c = "2" -> 50
      [] c = "a" -> 97
      [] c = "b" -> 98
      [] c = "p" -> 112
      [] c = "q" -> 113
      [] c = "r" -> 114
      [] OTHER -> 120

\* str::starts_with( prefix ): a comparison of characters, not of path components.
StartsWith(s, prefix) ==
    /\ Len(prefix) <= Len(s)
    /\ SubSeq(s, 1, Len(prefix)) = prefix

\* Ord for String: lexicographic by byte, a proper prefix first.
RECURSIVE StrLess(_, _)
StrLess(s, t) ==
    IF t = <<>> THEN FALSE
    ELSE IF s = <<>> THEN TRUE
    ELSE IF Head(s) = Head(t) THEN StrLess(Tail(s), Tail(t))
    ELSE CharCode(Head(s)) < CharCode(Head(t))

\* Iteration order of a BTreeSet<String>: ascending.
RECURSIVE BTreeIter(_)
BTreeIter(set) ==
    IF set = {} THEN <<>>
    ELSE LET least == CHOOSE x \in set : \A y \in set \ {x} : StrLess(x, y)
         IN  <<least>> \o BTreeIter(set \ {least})

\* The elements of a sequence, as a set.
Range(seq) == {seq[i] : i \in 1..Len(seq)}

\* ---------------------------------------------------------------- paths
\* A PathBuf is the sequence of its components below the root directory.
\* Path::to_str of an absolute path: "/" before every component.
RECURSIVE ToStr(_)
ToStr(path) ==
    IF path = <<>> THEN <<>>
    ELSE <<"/">> \o Head(path) \o ToStr(Tail(path))

\* Path::components of an absolute path string: the inverse reading of ToStr.
RECURSIVE Components(_, _, _)
Components(str, i, cur) ==
    IF i > Len(str) THEN (IF cur = <<>> THEN <<>> ELSE <<cur>>)
    ELSE IF str[i] = "/"
         THEN (IF cur = <<>> THEN <<>> ELSE <<cur>>) \o Components(str, i + 1, <<>>)
         ELSE Components(str, i + 1, Append(cur, str[i]))

\* Path::starts_with: whole components. Used only in the properties.
PathUnder(str, dir) ==
    LET c == Components(str, 1, <<>>)
    IN  /\ Len(dir) <= Len(c)
        /\ SubSeq(c, 1, Len(dir)) = dir

\* env::current_dir(): /p
WorkingDirectory == <<NameP>>
working_directory_string == ToStr(WorkingDirectory)

\* ---------------------------------------------------------------- file system
\* The tree below the working directory: every directory on the chain
\* p, p/a, p/a/a, ... has the subdirectories a and b; the b's are leaves.
RECURSIVE Chain(_)
Chain(k) == IF k = 0 THEN WorkingDirectory ELSE Append(Chain(k - 1), NameA)
InnerDirs == {Chain(k) : k \in 0..(MaxDepth - 1)}
Dirs == InnerDirs \cup {Chain(MaxDepth)} \cup {Append(d, NameB) : d \in InnerDirs}

\* One item of a directory listing (an io::Result<DirEntry> of fs::read_dir).
\* kind "error" is an Err item; lines/readable describe a regular file's content.
DirItem(name) == [name |-> name, kind |-> "dir", readable |-> TRUE, lines |-> <<>>]
FileItem(name, readable, lines) ==
    [name |-> name, kind |-> "file", readable |-> readable, lines |-> lines]
ErrItem == [name |-> <<>>, kind |-> "error", readable |-> FALSE, lines |-> <<>>]

NoDir == <<>>
NoMarker == [dir |-> NoDir, readable |-> TRUE, lines |-> <<>>]
NoFault == [kind |-> "none", dir |-> NoDir]

\* The orders in which read_dir may hand out the kinds of items of a directory.
ItemKinds == {"git", "marker", "subs"}
ListingOrders == {o \in [1..3 -> ItemKinds] : \A i, j \in 1..3 : o[i] = o[j] => i = j}
DefaultOrder == <<"subs", "marker", "git">>

\* The items of kind k that directory d holds.
ItemsOf(d, k, git, marker, fault) ==
    CASE k = "git" -> IF d \in git THEN <<DirItem(GitName)>> ELSE <<>>
      [] k = "marker" ->
            IF marker.dir = d
            THEN <<FileItem(IgnoreName, marker.readable, marker.lines)>>
            ELSE <<>>
      [] k = "subs" ->
            IF d \in InnerDirs THEN <<DirItem(NameA), DirItem(NameB)>> ELSE <<>>
      [] OTHER -> IF fault.kind = k /\ fault.dir = d THEN <<ErrItem>> ELSE <<>>

\* A file system: every directory's readability and listing. An Err item of
\* the listing, if any, comes first or last.
MkFs(git, marker, fault, order) ==
    [d \in Dirs |->
        [readable |-> ~(fault.kind = "readdir" /\ fault.dir = d),
         listing |-> ItemsOf(d, "entry_first", git, marker, fault)
                     \o ItemsOf(d, order[1], git, marker, fault)
                     \o ItemsOf(d, order[2], git, marker, fault)
                     \o ItemsOf(d, order[3], git, marker, fault)
                     \o ItemsOf(d, "entry_last", git, marker, fault)]]

GitSets == {g \in SUBSET Dirs : Cardinality(g) <= MaxGit}
MarkerFiles ==
    {NoMarker} \cup
    {[dir |-> d, readable |-> FALSE, lines |-> <<>>] : d \in InnerDirs} \cup
    {[dir |-> d, readable |-> TRUE, lines |-> l] :
        d \in InnerDirs, l \in {<<NameA>>, <<NameB>>, <<NameB, NameA>>}}
Faults ==
    {NoFault} \cup
    {[kind |-> k, dir |-> d] : k \in {"readdir", "entry_first", "entry_last"}, d \in Dirs}

\* The file systems of the scanner's specification, and the fewer ones of main's.
ScanFileSystems ==
    {MkFs(g, m, f, o) : g \in GitSets, m \in MarkerFiles, f \in Faults, o \in ListingOrders}
MainGitSets == {g \in GitSets : g \subseteq {Chain(1), Append(Chain(0), NameB), Append(Chain(1), NameB)}}
MainConditions ==
    {[marker |-> NoMarker, fault |-> NoFault],
     [marker |-> [dir |-> Chain(0), readable |-> TRUE, lines |-> <<NameB>>],
      fault |-> NoFault],
     [marker |-> [dir |-> Chain(1), readable |-> FALSE, lines |-> <<>>],
      fault |-> NoFault],
     [marker |-> NoMarker, fault |-> [kind |-> "readdir", dir |-> Append(Chain(0), NameB)]],
     [marker |-> NoMarker, fault |-> [kind |-> "entry_last", dir |-> Chain(1)]]}
MainFileSystems ==
    {MkFs(g, c.marker, c.fault, DefaultOrder) : g \in MainGitSets, c \in MainConditions}

\* The registry file: lines drawn from these paths, in any order, repeats allowed.
KnownUniverse ==
    {ToStr(<<NameP, NameA>>), ToStr(<<NameP, NameB>>),
     ToStr(<<NameP2, NameR>>), ToStr(<<NameQ, NameR>>)}
RegistryFiles == UNION {[1..n -> KnownUniverse] : n \in 0..MaxKnown}
SortedRegistryFiles == {f \in RegistryFiles : f = BTreeIter(Range(f))}

RemoteLists == {<<>>, <<"origin">>, <<"origin", "upstream">>}

Commands ==
    {[mode |-> "discover", add |-> a, prune |-> p, global |-> FALSE] : a, p \in BOOLEAN}
    \cup {[mode |-> m, add |-> FALSE, prune |-> FALSE, global |-> FALSE] : m \in {"status", "fetch"}}
    \cup {[mode |-> "list", add |-> FALSE, prune |-> FALSE, global |-> g] : g \in BOOLEAN}

VARIABLES
    fs,          \* the directory tree below the working directory
    file,        \* ~/.reposcanconfig: its lines
    cmd,         \* the parsed command line (Cli)
    pc,          \* position in main
    error,       \* the Err main returns, "none" so far
    all_known_repositories,
    repositories_in_working_directory,
    ignored_repositories_count,
    scan,        \* the value discover returned
    discovered_repositories,
    new_repositories,
    obsolete_repositories,
    writes,      \* number of fs::write calls on the registry file
    repo_index,  \* repositories of the for loop already begun
    remotes,     \* the remotes of the repository being fetched
    remote_index, \* remotes of it already handled
    opened,      \* the paths given to Repository::open, in order
    enumerated,  \* the remotes listed for each repository fetched, in order
    fetched,     \* the fetches attempted, in order, and their outcome
    printed      \* the lines written to the standard output

vars ==
    <<fs, file, cmd, pc, error, all_known_repositories, repositories_in_working_directory,
      ignored_repositories_count, scan, discovered_repositories, new_repositories, obsolete_repositories,
      writes, repo_index, remotes, remote_index, opened, enumerated, fetched, printed>>

\* ---------------------------------------------------------------- scanner
Path_is_dir(path) == path \in DOMAIN fs

ScanErr(scanned) == [ok |-> FALSE, repos |-> <<>>, scanned |-> scanned]
ScanOk(repos, scanned) == [ok |-> TRUE, repos |-> repos, scanned |-> scanned]

NoPatterns == [some |-> FALSE, set |-> {}]

\* The loop over fs::read_dir: tag "err" (a ? returned), "repo" (.git found:
\* early return, with the locals as they stand) or "end" with the collected
\* entries and ignore patterns.
RECURSIVE ReadEntries(_, _, _, _)
ReadEntries(dir, i, entries, ignore_patterns) ==
    LET listing == fs[dir].listing
        entry == listing[i]
        entry_path == dir \o <<entry.name>>
    IN  IF i > Len(listing)
        THEN [tag |-> "end", entries |-> entries, ignore_patterns |-> ignore_patterns]
        ELSE IF entry.kind = "error"
        THEN [tag |-> "err", entries |-> <<>>, ignore_patterns |-> NoPatterns]
        ELSE IF entry.kind = "dir" /\ entry.name = GitName
        THEN [tag |-> "repo", entries |-> entries, ignore_patterns |-> ignore_patterns]
        ELSE IF entry.kind = "dir"
        THEN ReadEntries(dir, i + 1,
                         Append(entries, [path |-> entry_path, name |-> entry.name]),
                         ignore_patterns)
        ELSE IF entry.kind = "file" /\ entry.name = IgnoreName
        THEN IF ~entry.readable
             THEN [tag |-> "err", entries |-> <<>>, ignore_patterns |-> NoPatterns]
             ELSE ReadEntries(dir, i + 1, entries,
                              [some |-> TRUE, set |-> Range(entry.lines)])
        ELSE ReadEntries(dir, i + 1, entries, ignore_patterns)

\* Variant: the patterns are compared with the entry's path, not its name.
FilterEntries_path(entries, ignore_patterns) ==
    IF ignore_patterns.some
    THEN SelectSeq(entries, LAMBDA e : e.path \notin ignore_patterns.set)
    ELSE entries

\* "Potentially filter entries."
FilterEntries(entries, ignore_patterns) ==
    IF ignore_patterns.some
    THEN SelectSeq(entries, LAMBDA e : e.name \notin ignore_patterns.set)
    ELSE entries

\* discover( working_directory, verbose ): the repositories found, or an error;
\* scanned is the verbose trace "scanning ...", one directory per call.
RECURSIVE discover(_)
RECURSIVE ScanEntries(_, _, _)

\* Variant: a subdirectory whose scan fails is skipped.
RECURSIVE ScanEntries_skip(_, _, _)
ScanEntries_skip(entries, repositories, scanned) ==
    IF entries = <<>> THEN ScanOk(repositories, scanned)
    ELSE IF ~Path_is_dir(Head(entries).path)
    THEN ScanEntries_skip(Tail(entries), repositories, scanned)
    ELSE LET sub == discover(Head(entries).path)
         IN  ScanEntries_skip(Tail(entries), repositories \o sub.repos,
                              scanned \o sub.scanned)

ScanEntries(entries, repositories, scanned) ==
    IF entries = <<>> THEN ScanOk(repositories, scanned)
    ELSE IF ~Path_is_dir(Head(entries).path)
    THEN ScanEntries(Tail(entries), repositories, scanned)
    ELSE LET sub == discover(Head(entries).path)
         IN  IF ~sub.ok
             THEN ScanErr(scanned \o sub.scanned)
             ELSE ScanEntries(Tail(entries), repositories \o sub.repos,
                              scanned \o sub.scanned)

\* Variant: .git ends the listing loop but not the call, which goes on to the
\* subdirectories collected so far.
discover_break(working_directory) ==
    IF ~fs[working_directory].readable
    THEN ScanErr(<<working_directory>>)
    ELSE LET read == ReadEntries(working_directory, 1, <<>>, NoPatterns)
         IN  CASE read.tag = "err" -> ScanErr(<<working_directory>>)
               [] read.tag = "repo" ->
                    ScanEntries(FilterEntries(read.entries, read.ignore_patterns),
                                <<working_directory>>, <<working_directory>>)
               [] OTHER -> ScanEntries(FilterEntries(read.entries, read.ignore_patterns),
                                       <<>>, <<working_directory>>)

discover(working_directory) ==
    IF ~fs[working_directory].readable
    THEN ScanErr(<<working_directory>>)
    ELSE LET read == ReadEntries(working_directory, 1, <<>>, NoPatterns)
         IN  CASE read.tag = "err" -> ScanErr(<<working_directory>>)
               [] read.tag = "repo" -> ScanOk(<<working_directory>>, <<working_directory>>)
               [] OTHER -> ScanEntries(FilterEntries(read.entries, read.ignore_patterns),
                                       <<>>, <<working_directory>>)

\* ---------------------------------------------------------------- registry
\* load_known_repositories: every line of the file, inserted into a BTreeSet.
load_known_repositories(lines) == Range(lines)

\* repositories_in_working_directory: the entries that start with the working
\* directory's string.
ScopeOf(known) == {repository \in known : StartsWith(repository, working_directory_string)}

\* new_repositories: the discovered paths not in the scope, in discovery order.
NewRepositories(discovered, scope) ==
    SelectSeq(discovered, LAMBDA repository : repository \notin scope)

\* Variant: every path of the scope counts as obsolete.
ObsoleteRepositories_all(discovered, scope) == BTreeIter(scope)

\* obsolete_repositories: the scope's paths not discovered, in the set's order.
ObsoleteRepositories(discovered, scope) ==
    SelectSeq(BTreeIter(scope), LAMBDA repository : repository \notin Range(discovered))

\* Variant: the registry is replaced by the new repositories.
AddNew_replace(known, new) == Range(new)

\* if *add: insert every new repository the registry does not contain.
AddNew(known, new) == known \cup {repository \in Range(new) : repository \notin known}

\* if *prune: remove every obsolete repository.
PruneObsolete(known, obsolete) == known \ Range(obsolete)

\* Variant: every discover run rewrites the file.
ShouldWrite_always(c) == c.mode = "discover"

\* The condition under which main rewrites the registry file.
ShouldWrite(c) == c.mode = "discover" /\ (c.add \/ c.prune)

\* The lines main writes: the set in ascending order, one path per line.
Serialize(known) == BTreeIter(known)

\* Variant: a failed fetch is returned with ?.
AfterFetch_abort(fetch_ok) ==
    IF fetch_ok THEN [pc |-> "fetch", error |-> "none"]
    ELSE [pc |-> "failed", error |-> "fetch_err"]

\* What main does after remote.fetch returned: print a failure, go on either way.
AfterFetch(fetch_ok) == [pc |-> "fetch", error |-> "none"]

Line(kind, text) == [kind |-> kind, text |-> text]
Lines(kind, texts) == [i \in 1..Len(texts) |-> Line(kind, texts[i])]

\* ---------------------------------------------------------------- main
\* Reads and the write of the registry file, env::current_dir and
\* home::home_dir are taken to succeed; every other fallible call may fail.
InitWith(f, c, t) ==
    /\ fs = t
    /\ file = f
    /\ cmd = c
    /\ pc = "start"
    /\ error = "none"
    /\ all_known_repositories = {}
    /\ repositories_in_working_directory = {}
    /\ ignored_repositories_count = 0
    /\ scan = ScanOk(<<>>, <<>>)
    /\ discovered_repositories = <<>>
    /\ new_repositories = <<>>
    /\ obsolete_repositories = <<>>
    /\ writes = 0
    /\ repo_index = 0
    /\ remotes = <<>>
    /\ remote_index = 0
    /\ opened = <<>>
    /\ enumerated = <<>>
    /\ fetched = <<>>
    /\ printed = <<>>

Init ==
    \/ \E c \in {k \in Commands : k.mode = "discover"}, f \in RegistryFiles,
          t \in MainFileSystems : InitWith(f, c, t)
    \/ \E c \in {k \in Commands : k.mode # "discover"}, f \in SortedRegistryFiles :
          InitWith(f, c, MkFs({}, NoMarker, NoFault, DefaultOrder))

\* main, up to the match on the command: load the registry, take the scope.
Startup ==
    /\ pc = "start"
    /\ LET known == load_known_repositories(file)
       IN  /\ all_known_repositories' = known
           /\ repositories_in_working_directory' = ScopeOf(known)
           /\ ignored_repositories_count' = Cardinality(known) - Cardinality(ScopeOf(known))
    /\ pc' = cmd.mode
    /\ UNCHANGED <<fs, file, cmd, error, scan, discovered_repositories, new_repositories,
                   obsolete_repositories, writes, repo_index, remotes, remote_index,
                   opened, enumerated, fetched, printed>>

\* Commands::Discover: the scan and the two differences.
DiscoverScan ==
    /\ pc = "discover"
    /\ LET found == discover(WorkingDirectory)
           discovered == [i \in 1..Len(found.repos) |-> ToStr(found.repos[i])]
       IN  /\ scan' = found
           /\ IF found.ok
              THEN /\ discovered_repositories' = discovered
                   /\ new_repositories' =
                        NewRepositories(discovered, repositories_in_working_directory)
                   /\ obsolete_repositories' =
                        ObsoleteRepositories(discovered, repositories_in_working_directory)
                   /\ pc' = "add"
                   /\ error' = "none"
              ELSE /\ pc' = "failed"
                   /\ error' = "scan"
                   /\ UNCHANGED <<discovered_repositories, new_repositories,
                                  obsolete_repositories>>
    /\ UNCHANGED <<fs, file, cmd, all_known_repositories,
                   repositories_in_working_directory, ignored_repositories_count,
                   writes, repo_index, remotes, remote_index, opened, enumerated,
                   fetched, printed>>

DiscoverAdd ==
    /\ pc = "add"
    /\ IF cmd.add
       THEN /\ all_known_repositories' = AddNew(all_known_repositories, new_repositories)
            /\ printed' = printed \o Lines("added",
                 SelectSeq(new_repositories, LAMBDA r : r \notin all_known_repositories))
       ELSE UNCHANGED <<all_known_repositories, printed>>
    /\ pc' = "prune"
    /\ UNCHANGED <<error, fs, file, cmd, repositories_in_working_directory,
                   ignored_repositories_count, scan, discovered_repositories,
                   new_repositories, obsolete_repositories, writes, repo_index,
                   remotes, remote_index, opened, enumerated, fetched>>

DiscoverPrune ==
    /\ pc = "prune"
    /\ IF cmd.prune
       THEN /\ all_known_repositories' =
                 PruneObsolete(all_known_repositories, obsolete_repositories)
            /\ printed' = Append(printed, Line("blank", <<>>))
                             \o Lines("removed", obsolete_repositories)
       ELSE /\ printed' = Append(printed, Line("blank", <<>>))
            /\ UNCHANGED all_known_repositories
    /\ pc' = "report"
    /\ UNCHANGED <<error, fs, file, cmd, repositories_in_working_directory,
                   ignored_repositories_count, scan, discovered_repositories,
                   new_repositories, obsolete_repositories, writes, repo_index,
                   remotes, remote_index, opened, enumerated, fetched>>

\* if !add && !prune: the read-only report.
DiscoverReport ==
    /\ pc = "report"
    /\ printed' = IF ~cmd.add /\ ~cmd.prune
                  THEN Append(printed, Line("new_header", <<>>))
                         \o Lines("new", new_repositories)
                         \o <<Line("blank", <<>>), Line("obsolete_header", <<>>)>>
                         \o Lines("obsolete", obsolete_repositories)
                         \o <<Line("blank", <<>>)>>
                  ELSE printed
    /\ pc' = "finish"
    /\ UNCHANGED <<error, fs, file, cmd, all_known_repositories,
                   repositories_in_working_directory, ignored_repositories_count,
                   scan, discovered_repositories, new_repositories,
                   obsolete_repositories, writes, repo_index, remotes, remote_index,
                   opened, enumerated, fetched>>

\* Commands::Fetch, the head of the outer loop: open the next repository and
\* list its branches and remotes; any of the three may fail (?).
FetchOpen ==
    /\ pc = "fetch"
    /\ remote_index = Len(remotes)
    /\ repo_index < Cardinality(all_known_repositories)
    /\ LET repository_path == BTreeIter(all_known_repositories)[repo_index + 1]
       IN  \E outcome \in {"ok", "open_err", "branches_err", "remotes_err"},
              names \in RemoteLists :
             /\ opened' = Append(opened, repository_path)
             /\ repo_index' = repo_index + 1
             /\ printed' = IF outcome = "open_err" THEN printed
                           ELSE Append(printed, Line("fetching", repository_path))
             /\ IF outcome = "ok"
                THEN /\ remotes' = names
                     /\ remote_index' = 0
                     /\ enumerated' =
                          Append(enumerated, [repo |-> repository_path, remotes |-> names])
                     /\ pc' = "fetch"
                     /\ error' = "none"
                ELSE /\ pc' = "failed"
                     /\ error' = outcome
                     /\ UNCHANGED <<remotes, remote_index, enumerated>>
    /\ UNCHANGED <<fs, file, cmd, all_known_repositories,
                   repositories_in_working_directory, ignored_repositories_count,
                   scan, discovered_repositories, new_repositories,
                   obsolete_repositories, writes, fetched>>

\* The inner loop: find the remote (?), fetch it in-process, print a failure.
FetchRemote ==
    /\ pc = "fetch"
    /\ remote_index < Len(remotes)
    /\ LET repository_path == BTreeIter(all_known_repositories)[repo_index]
           remote == remotes[remote_index + 1]
       IN  \E find_ok, fetch_ok \in BOOLEAN :
             IF ~find_ok
             THEN /\ pc' = "failed"
                  /\ error' = "find_remote_err"
                  /\ UNCHANGED <<remote_index, fetched, printed>>
             ELSE /\ fetched' = Append(fetched,
                       [repo |-> repository_path, remote |-> remote,
                        direct_ok |-> fetch_ok, external_runs |-> 0,
                        reported |-> IF fetch_ok THEN "nothing" ELSE "failed"])
                  /\ printed' = IF fetch_ok THEN printed
                                ELSE Append(printed, Line("fetch_failed", remote))
                  /\ remote_index' = remote_index + 1
                  /\ pc' = AfterFetch(fetch_ok).pc
                  /\ error' = AfterFetch(fetch_ok).error
    /\ UNCHANGED <<fs, file, cmd, all_known_repositories,
                   repositories_in_working_directory, ignored_repositories_count,
                   scan, discovered_repositories, new_repositories,
                   obsolete_repositories, writes, repo_index, remotes, opened,
                   enumerated>>

FetchEnd ==
    /\ pc = "fetch"
    /\ remote_index = Len(remotes)
    /\ repo_index = Cardinality(all_known_repositories)
    /\ pc' = "finish"
    /\ UNCHANGED <<error, fs, file, cmd, all_known_repositories,
                   repositories_in_working_directory, ignored_repositories_count,
                   scan, discovered_repositories, new_repositories,
                   obsolete_repositories, writes, repo_index, remotes, remote_index,
                   opened, enumerated, fetched, printed>>

\* Commands::Status, one repository: open (?), state, statuses (?), report.
StatusRepo ==
    /\ pc = "status"
    /\ repo_index < Cardinality(all_known_repositories)
    /\ LET repository_path == BTreeIter(all_known_repositories)[repo_index + 1]
       IN  \E open_ok, statuses_ok, state_clean \in BOOLEAN, status_clean \in 0..1 :
             /\ opened' = Append(opened, repository_path)
             /\ repo_index' = repo_index + 1
             /\ IF open_ok /\ statuses_ok
                THEN /\ pc' = "status"
                     /\ error' = "none"
                     /\ printed' = IF ~state_clean \/ status_clean # 0
                                   THEN Append(printed, Line("unclean", repository_path))
                                   ELSE printed
                ELSE /\ pc' = "failed"
                     /\ error' = IF open_ok THEN "statuses_err" ELSE "open_err"
                     /\ printed' = printed
    /\ UNCHANGED <<fs, file, cmd, all_known_repositories,
                   repositories_in_working_directory, ignored_repositories_count,
                   scan, discovered_repositories, new_repositories,
                   obsolete_repositories, writes, remotes, remote_index, enumerated,
                   fetched>>

StatusEnd ==
    /\ pc = "status"
    /\ repo_index = Cardinality(all_known_repositories)
    /\ pc' = "finish"
    /\ UNCHANGED <<error, fs, file, cmd, all_known_repositories,
                   repositories_in_working_directory, ignored_repositories_count,
                   scan, discovered_repositories, new_repositories,
                   obsolete_repositories, writes, repo_index, remotes, remote_index,
                   opened, enumerated, fetched, printed>>

\* Commands::List
List ==
    /\ pc = "list"
    /\ printed' = printed \o Lines("listed",
            BTreeIter(IF cmd.global THEN all_known_repositories
                      ELSE repositories_in_working_directory))
    /\ pc' = "finish"
    /\ UNCHANGED <<error, fs, file, cmd, all_known_repositories,
                   repositories_in_working_directory, ignored_repositories_count,
                   scan, discovered_repositories, new_repositories,
                   obsolete_repositories, writes, repo_index, remotes, remote_index,
                   opened, enumerated, fetched>>

\* After the match: rewrite the registry file, print the ignored count.
Finish ==
    /\ pc = "finish"
    /\ IF ShouldWrite(cmd)
       THEN /\ file' = Serialize(all_known_repositories)
            /\ writes' = writes + 1
       ELSE UNCHANGED <<file, writes>>
    /\ printed' = IF cmd.mode = "list" /\ ~cmd.global /\ ignored_repositories_count # 0
                  THEN Append(printed, Line("ignored", <<>>))
                  ELSE printed
    /\ pc' = "done"
    /\ UNCHANGED <<error, fs, cmd, all_known_repositories, repositories_in_working_directory,
                   ignored_repositories_count, scan, discovered_repositories,
                   new_repositories, obsolete_repositories, repo_index, remotes,
                   remote_index, opened, enumerated, fetched>>

Next ==
    \/ Startup
    \/ DiscoverScan
    \/ DiscoverAdd
    \/ DiscoverPrune
    \/ DiscoverReport
    \/ FetchOpen
    \/ FetchRemote
    \/ FetchEnd
    \/ StatusRepo
    \/ StatusEnd
    \/ List
    \/ Finish

Spec == Init /\ [][Next]_vars

\* The scanner alone, over every file system of ScanFileSystems.
ScanInit ==
    \E t \in ScanFileSystems :
        InitWith(<<>>, [mode |-> "discover", add |-> FALSE, prune |-> FALSE,
                        global |-> FALSE], t)

ScanNext ==
    \/ Startup
    \/ DiscoverScan

ScanSpec == ScanInit /\ [][ScanNext]_vars

\* ---------------------------------------------------------------- properties
\* Read off the file system, independently of the scanner.
HasGit(d) ==
    \E i \in 1..Len(fs[d].listing) :
        fs[d].listing[i].kind = "dir" /\ fs[d].listing[i].name = GitName
GitIndex(d) ==
    IF HasGit(d)
    THEN CHOOSE i \in 1..Len(fs[d].listing) :
            fs[d].listing[i].kind = "dir" /\ fs[d].listing[i].name = GitName
    ELSE Len(fs[d].listing) + 1
IsMarker(item) == item.kind = "file" /\ item.name = IgnoreName
\* A read of directory d, of one of its items or of its marker file fails
\* before the listing reaches a .git directory.
ReadFails(d) ==
    \/ ~fs[d].readable
    \/ \E i \in 1..Len(fs[d].listing) :
          /\ i < GitIndex(d)
          /\ \/ fs[d].listing[i].kind = "error"
             \/ IsMarker(fs[d].listing[i]) /\ ~fs[d].listing[i].readable
IsPrefix(p, q) == Len(p) <= Len(q) /\ SubSeq(q, 1, Len(p)) = p
ProperAncestors(d) == {SubSeq(d, 1, k) : k \in Len(WorkingDirectory)..(Len(d) - 1)}
ScanDone == cmd.mode = "discover" /\ pc \notin {"start", "discover"}
Scanned == Range(scan.scanned)
Found == Range(scan.repos)
\* The registry as loaded, while the file has not been rewritten.
KnownBefore == load_known_repositories(file)
ScopeBefore == {r \in KnownBefore : StartsWith(r, working_directory_string)}
Discovered == Range(discovered_repositories)

\* C1: after discover --add --prune the registry is exactly (K - S) \cup D,
\* with obsolete = S - D removed, new = D - S the only paths inserted, and
\* this set is what the registry file then holds.
C1_Reconciled ==
    (cmd.mode = "discover" /\ cmd.add /\ cmd.prune) =>
        /\ pc \in {"report", "finish"} =>
              /\ all_known_repositories = (KnownBefore \ ScopeBefore) \cup Discovered
              /\ Range(new_repositories) = Discovered \ ScopeBefore
              /\ Range(obsolete_repositories) = ScopeBefore \ Discovered
              /\ all_known_repositories \ KnownBefore = Discovered \ ScopeBefore
              /\ KnownBefore \ all_known_repositories = ScopeBefore \ Discovered
        /\ pc = "done" => Range(file) = all_known_repositories
C1_Witness ==
    /\ cmd.mode = "discover" /\ cmd.add /\ cmd.prune
    /\ pc = "finish"
    /\ new_repositories # <<>>
    /\ obsolete_repositories # <<>>
    /\ KnownBefore \ ScopeBefore # {}
    /\ ScopeBefore \cap Discovered # {}

\* C2: the scanner never enters a directory below one that directly contains
\* a .git directory; when the scan succeeds such a directory contributes
\* itself and nothing else, wherever .git stands in its listing, so no
\* returned root lies below another returned root.
C2_NoDescentIntoRepository ==
    ScanDone =>
        /\ \A d \in Scanned : \A a \in ProperAncestors(d) : ~HasGit(a)
        /\ scan.ok =>
              /\ \A d \in Scanned : HasGit(d) =>
                    /\ {r \in Found : IsPrefix(d, r)} = {d}
                    /\ Cardinality({i \in 1..Len(scan.repos) : scan.repos[i] = d}) = 1
              /\ \A r1, r2 \in Found : IsPrefix(r1, r2) => r1 = r2
C2_Witness ==
    /\ ScanDone /\ scan.ok
    /\ HasGit(Chain(1)) /\ HasGit(Append(Chain(1), NameB))
    /\ GitIndex(Chain(1)) = Len(fs[Chain(1)].listing)
    /\ GitIndex(Chain(1)) > 1
    /\ scan.repos = <<Chain(1)>>

\* C3: when a scanned directory holds a marker file that lists x, no returned
\* repository is x or lies below x, and the scan does not enter x, whether the
\* marker is listed before or after x and whether or not x is a repository root.
C3_ExcludedSubtreeSkipped ==
    ScanDone =>
        \A d \in Scanned : \A i \in 1..Len(fs[d].listing) :
            (IsMarker(fs[d].listing[i]) /\ fs[d].listing[i].readable) =>
                \A x \in Range(fs[d].listing[i].lines) :
                    /\ \A r \in Found : ~IsPrefix(Append(d, x), r)
                    /\ \A t \in Scanned : ~IsPrefix(Append(d, x), t)
C3_Witness ==
    /\ ScanDone /\ scan.ok
    /\ \E i \in 1..Len(fs[Chain(0)].listing) :
          /\ IsMarker(fs[Chain(0)].listing[i])
          /\ fs[Chain(0)].listing[i].lines = <<NameA>>
          /\ i = Len(fs[Chain(0)].listing)
          /\ i > 1
    /\ HasGit(Chain(1))
    /\ scan.repos = <<Append(Chain(0), NameB)>>

\* C4 (as claimed): every remote whose direct fetch fails has the external
\* fetch command run exactly once, and a remote whose direct fetch succeeds, never.
C4_FallbackRunsOnce ==
    \A i \in 1..Len(fetched) :
        /\ ~fetched[i].direct_ok => fetched[i].external_runs = 1
        /\ fetched[i].direct_ok => fetched[i].external_runs = 0

RECURSIVE FlattenRemotes(_)
FlattenRemotes(listed) ==
    IF listed = <<>> THEN <<>>
    ELSE [i \in 1..Len(Head(listed).remotes) |->
             <<Head(listed).repo, Head(listed).remotes[i]>>]
         \o FlattenRemotes(Tail(listed))
FetchedPairs == [i \in 1..Len(fetched) |-> <<fetched[i].repo, fetched[i].remote>>]

\* C5: fetch ends in an error only when a repository does not open, its
\* branches or remotes cannot be listed or a listed remote cannot be looked up,
\* never because a fetch failed; the fetches attempted are, in order, those of
\* the remotes listed so far, and when the command completes they are every
\* remote of every repository of the registry, in the registry's order.
C5_FetchNeverAborts ==
    cmd.mode = "fetch" =>
        /\ pc = "failed" =>
              error \in {"open_err", "branches_err", "remotes_err", "find_remote_err"}
        /\ pc # "failed" => error = "none"
        /\ IsPrefix(FetchedPairs, FlattenRemotes(enumerated))
        /\ pc = "fetch" =>
              Len(fetched) + (Len(remotes) - remote_index) = Len(FlattenRemotes(enumerated))
        /\ pc \in {"finish", "done"} =>
              /\ [i \in 1..Len(enumerated) |-> enumerated[i].repo]
                    = BTreeIter(all_known_repositories)
              /\ FetchedPairs = FlattenRemotes(enumerated)
C5_Witness ==
    /\ cmd.mode = "fetch" /\ pc = "done" /\ error = "none"
    /\ Len(fetched) >= 3
    /\ ~fetched[1].direct_ok
    /\ fetched[2].repo = fetched[1].repo
    /\ fetched[3].repo # fetched[1].repo

\* C6: a run that is not discover with add or prune leaves the registry file
\* alone, and discover with neither flag leaves the loaded registry as it is.
C6_ReadOnlyWithoutFlags ==
    [][~(cmd.mode = "discover" /\ (cmd.add \/ cmd.prune)) =>
          /\ file' = file
          /\ writes' = writes
          /\ pc # "start" => all_known_repositories' = all_known_repositories]_vars
C6_Witness ==
    /\ cmd.mode = "discover" /\ ~cmd.add /\ ~cmd.prune
    /\ pc = "done"
    /\ new_repositories # <<>>
    /\ obsolete_repositories # <<>>
    /\ file # Serialize(all_known_repositories)
    /\ writes = 0

\* C7 (as claimed): status and fetch open the repositories of the scope and
\* no other entry of the registry.
C7_OnlyScopeProcessed ==
    cmd.mode \in {"status", "fetch"} =>
        /\ Range(opened) \subseteq repositories_in_working_directory
        /\ \A i \in 1..Len(fetched) : fetched[i].repo \in repositories_in_working_directory

\* C8 (as claimed): the scope is a subset of the registry in every state.
C8_ScopeSubsetOfKnown ==
    repositories_in_working_directory \subseteq all_known_repositories

\* C8 (amended): the scope is a subset of the registry until prune has run;
\* from then on the scope still holds the obsolete paths, which the registry
\* no longer does, and the rest of the scope is in the registry.
Pruned == cmd.mode = "discover" /\ cmd.prune /\ pc \in {"report", "finish", "done"}
C8_ScopeSubsetUntilPruned ==
    IF Pruned
    THEN /\ repositories_in_working_directory \ Range(obsolete_repositories)
               \subseteq all_known_repositories
         /\ Range(obsolete_repositories) \cap all_known_repositories = {}
         /\ Range(obsolete_repositories) \subseteq repositories_in_working_directory
    ELSE repositories_in_working_directory \subseteq all_known_repositories
C8_Witness ==
    /\ Pruned /\ cmd.add
    /\ obsolete_repositories # <<>>
    /\ new_repositories # <<>>
    /\ repositories_in_working_directory \ Range(obsolete_repositories) # {}

\* C9: when a read of a directory, of a listing item or of a marker file fails
\* during the scan, discover returns an error and no repositories, and main
\* ends there: the registry is as loaded, nothing was printed or written.
C9_ScanFailureAborts ==
    (ScanDone /\ \E d \in Scanned : ReadFails(d)) =>
        /\ ~scan.ok
        /\ scan.repos = <<>>
        /\ pc = "failed"
        /\ error = "scan"
        /\ all_known_repositories = KnownBefore
        /\ discovered_repositories = <<>>
        /\ printed = <<>>
        /\ writes = 0
C9_Witness ==
    /\ ScanDone /\ cmd.add /\ cmd.prune
    /\ pc = "failed"
    /\ HasGit(Chain(1))
    /\ ~fs[Append(Chain(0), NameB)].readable
    /\ scan.scanned = <<Chain(0), Chain(1), Append(Chain(0), NameB)>>
    /\ ScopeBefore # {}

\* C10 (as claimed): every path of the scope is the working directory or lies
\* below it, and prune leaves every entry outside that subtree in the registry.
C10_ScopeUnderWorkingDirectory ==
    /\ \A r \in repositories_in_working_directory : PathUnder(r, WorkingDirectory)
    /\ (cmd.mode = "discover" /\ cmd.prune /\ pc \in {"report", "finish"}) =>
          \A r \in KnownBefore :
              ~PathUnder(r, WorkingDirectory) => r \in all_known_repositories

====
